---- MODULE Spec2Model ----
(***************************************************************************)
(* A model of synapse/storage/databases/main/__init__.py: the admin user   *)
(* listing DataStore.get_users_paginate (filter building, the count query, *)
(* the ordered and paginated page query, the boolean normalisation of the  *)
(* rows) and the start-up check check_database_before_upgrade.             *)
(*                                                                         *)
(* Values that cross the database driver are tagged tuples, so that an     *)
(* integer 1 and a boolean True, or NULL and the empty string, are         *)
(* different values: <<"null">>, <<"none">>, <<"int", n>>, <<"bool", b>>,  *)
(* <<"str", s>> (s a sequence of one-character strings), <<"list", l>>.    *)
(***************************************************************************)
EXTENDS Integers, Sequences, FiniteSets, TLC

VARIABLES
    users,            \* table users: a set of rows
    profiles,         \* table profiles: a set of rows
    erased_users,     \* table erased_users: a set of rows
    database_engine,  \* self.database_engine: "sqlite" or "postgres"
    ret               \* what the last call returned or raised

vars == <<users, profiles, erased_users, database_engine, ret>>

-----------------------------------------------------------------------------
(* Bounds of the model *)

MaxStart == 1
MaxLimit == 3

-----------------------------------------------------------------------------
(* Values *)

NULL == <<"null">>
None == <<"none">>
Integer(n) == <<"int", n>>
Boolean(b) == <<"bool", b>>
Text(s) == <<"str", s>>
ListOf(l) == <<"list", l>>

Tag(v) == v[1]
Val(v) == v[2]

IsNull(v) == Tag(v) = "null"
IsNone(v) == Tag(v) = "none"

Min(a, b) == IF a <= b THEN a ELSE b
Max(a, b) == IF a >= b THEN a ELSE b

\* The characters of the model, in code point order.
Alphabet ==
    << "%", "8", ":", "@", "B", "D", "L", "_",
       "a", "b", "c", "d", "e", "l", "n", "o", "v", "x" >>

CharRank(c) == CHOOSE i \in 1..Len(Alphabet) : Alphabet[i] = c

\* str.lower() and SQL LOWER() on one character.
LowerChar(c) ==
    CASE c = "B" -> "b"
      [] c = "D" -> "d"
      [] c = "L" -> "l"
      [] OTHER -> c

\* str.lower() / SQL LOWER() on a sequence of characters.
Lower(s) == [i \in 1..Len(s) |-> LowerChar(s[i])]

\* s < t in code point order (the comparison of two texts in ORDER BY).
RECURSIVE SeqLess(_, _)
SeqLess(s, t) ==
    IF t = <<>> THEN FALSE
    ELSE IF s = <<>> THEN TRUE
    ELSE IF Head(s) = Head(t) THEN SeqLess(Tail(s), Tail(t))
    ELSE CharRank(Head(s)) < CharRank(Head(t))

\* SQL LIKE on character sequences, case-sensitively: % matches any run of
\* characters, _ any one character, every other character itself.
RECURSIVE LikeMatch(_, _)
LikeMatch(s, pat) ==
    IF pat = <<>> THEN s = <<>>
    ELSE IF Head(pat) = "%"
         THEN LikeMatch(s, Tail(pat)) \/ (s # <<>> /\ LikeMatch(Tail(s), pat))
    ELSE IF s = <<>> THEN FALSE
    ELSE (Head(pat) = "_" \/ Head(pat) = Head(s)) /\ LikeMatch(Tail(s), Tail(pat))

\* Three-valued SQL logic: "T", "F", "U" (unknown).
Truth(b) == IF b THEN "T" ELSE "F"
Not3(a) == CASE a = "T" -> "F" [] a = "F" -> "T" [] OTHER -> "U"
And3(a, b) ==
    IF a = "F" \/ b = "F" THEN "F"
    ELSE IF a = "T" /\ b = "T" THEN "T" ELSE "U"
Or3(a, b) ==
    IF a = "T" \/ b = "T" THEN "T"
    ELSE IF a = "F" /\ b = "F" THEN "F" ELSE "U"

\* x LIKE pat as the engine evaluates it: unknown on NULL; SQLite's LIKE
\* ignores the case of ASCII letters, PostgreSQL's does not.
Like3(engine, x, pat) ==
    IF IsNull(x) \/ IsNull(pat) THEN "U"
    ELSE IF engine = "sqlite"
         THEN Truth(LikeMatch(Lower(Val(x)), Lower(Val(pat))))
         ELSE Truth(LikeMatch(Val(x), Val(pat)))

\* LOWER(x)
SqlLower(x) == IF IsNull(x) THEN NULL ELSE Text(Lower(Val(x)))

\* x = v
Eq3(x, v) == IF IsNull(x) \/ IsNull(v) THEN "U" ELSE Truth(Val(x) = Val(v))

-----------------------------------------------------------------------------
(* The three tables *)

\* A column declared BOOLEAN as the engine keeps it: SQLite has no boolean
\* type and keeps 0 and 1.
Stored(engine, v) ==
    IF engine = "sqlite" /\ Tag(v) = "bool"
    THEN Integer(IF Val(v) THEN 1 ELSE 0)
    ELSE v

S(t) == Text(t)

\* The accounts the stores of the model are drawn from: a users row (u), its
\* profiles row if it has one (hasp, p) and whether erased_users has a row
\* for it (erased).  Handles are lower case and unique, as registration
\* leaves them.
NoProfile == [full_user_id |-> NULL, displayname |-> NULL, avatar_url |-> NULL]

Al ==
    [ u |-> [ name |-> S(<<"@", "a", "l", ":", "x">>), user_type |-> NULL,
              is_guest |-> Integer(0), admin |-> Integer(1),
              deactivated |-> Integer(0), shadow_banned |-> NULL,
              creation_ts |-> Integer(1), approved |-> NULL ],
      hasp |-> FALSE, p |-> NoProfile, erased |-> FALSE ]

Bob ==
    [ u |-> [ name |-> S(<<"@", "b", "o", "b", ":", "x">>),
              user_type |-> S(<<"b", "o", "t">>),
              is_guest |-> Integer(1), admin |-> Integer(0),
              deactivated |-> Integer(0), shadow_banned |-> Boolean(FALSE),
              creation_ts |-> Integer(1), approved |-> Boolean(TRUE) ],
      hasp |-> TRUE,
      p |-> [ full_user_id |-> S(<<"@", "b", "o", "b", ":", "x">>),
              displayname |-> S(<<"B", "o">>), avatar_url |-> NULL ],
      erased |-> TRUE ]

Cab ==
    [ u |-> [ name |-> S(<<"@", "c", "a", "b", ":", "x">>),
              user_type |-> S(<<"d", "e", "v">>),
              is_guest |-> Integer(0), admin |-> Integer(0),
              deactivated |-> Integer(1), shadow_banned |-> Boolean(TRUE),
              creation_ts |-> Integer(2), approved |-> Boolean(FALSE) ],
      hasp |-> TRUE,
      p |-> [ full_user_id |-> S(<<"@", "c", "a", "b", ":", "x">>),
              displayname |-> NULL, avatar_url |-> S(<<"a">>) ],
      erased |-> FALSE ]

Dan ==
    [ u |-> [ name |-> S(<<"@", "d", "a", "n", ":", "b", ":", "8">>),
              user_type |-> NULL,
              is_guest |-> Integer(0), admin |-> Integer(0),
              deactivated |-> Integer(0), shadow_banned |-> Boolean(FALSE),
              creation_ts |-> Integer(2), approved |-> Boolean(FALSE) ],
      hasp |-> TRUE,
      p |-> [ full_user_id |-> S(<<"@", "d", "a", "n", ":", "b", ":", "8">>),
              displayname |-> S(<<"D", "a", "n">>), avatar_url |-> NULL ],
      erased |-> FALSE ]

Eve ==
    [ u |-> [ name |-> S(<<"@", "e", "v", "e", ":", "x">>),
              user_type |-> S(<<"b", "o", "t">>),
              is_guest |-> Integer(0), admin |-> Integer(0),
              deactivated |-> Integer(0), shadow_banned |-> NULL,
              creation_ts |-> Integer(3), approved |-> Boolean(TRUE) ],
      hasp |-> TRUE,
      p |-> [ full_user_id |-> S(<<"@", "e", "v", "e", ":", "x">>),
              displayname |-> S(<<"a", "B">>), avatar_url |-> NULL ],
      erased |-> TRUE ]

Accounts == {Al, Bob, Cab, Dan, Eve}

Engines == {"sqlite", "postgres"}

\* The users row of an account as the engine keeps it.
UsersRow(engine, a) ==
    [ a.u EXCEPT !.shadow_banned = Stored(engine, a.u.shadow_banned),
                 !.approved = Stored(engine, a.u.approved) ]

\* FROM users as u LEFT JOIN profiles AS p ON u.name = p.full_user_id
\*               LEFT JOIN erased_users AS eu ON u.name = eu.user_id
\* One row per (u, p, eu) that satisfies the ON conditions; a users row with
\* no partner is kept once, with the partner's columns NULL.
NoErasure == [user_id |-> NULL]

Partners(table, key, u, none) ==
    LET m == {r \in table : Eq3(u.name, r[key]) = "T"}
    IN  IF m = {} THEN {none} ELSE m

sql_base(us, ps, es) ==
    UNION { { [u |-> u, p |-> p, eu |-> e] :
                p \in Partners(ps, "full_user_id", u, NoProfile),
                e \in Partners(es, "user_id", u, NoErasure) } : u \in us }

-----------------------------------------------------------------------------
(* Python values *)

\* The truth value Python gives v in `if v:` and bool(v).
Truthy(v) ==
    CASE Tag(v) = "none" -> FALSE
      [] Tag(v) = "bool" -> Val(v)
      [] Tag(v) = "int" -> Val(v) # 0
      [] OTHER -> Val(v) # <<>>

\* bool(v)
bool(v) == Boolean(Truthy(v))

\* What the driver hands to Python for an SQL value: NULL becomes None,
\* numbers, booleans and texts stay what the engine produced.
FromDb(v) == IF IsNull(v) THEN None ELSE v

-----------------------------------------------------------------------------
(* The sort orders *)

\* UserSortOrder (synapse/storage/databases/main/stats.py): the values that
\* UserSortOrder(order_by) accepts.
UserSortOrder ==
    { "name", "displayname", "is_guest", "admin", "deactivated", "user_type",
      "avatar_url", "shadow_banned", "creation_ts" }

\* The value ORDER BY {order_by_column} reads in a row of the join.
OrderColumn(j, col) ==
    CASE col = "displayname" -> j.p.displayname
      [] col = "avatar_url" -> j.p.avatar_url
      [] OTHER -> j.u[col]

\* v < w for two non-NULL values of one column.
ValueLess(v, w) ==
    CASE Tag(v) = "int" -> Val(v) < Val(w)
      [] Tag(v) = "bool" -> ~Val(v) /\ Val(w)
      [] OTHER -> SeqLess(Val(v), Val(w))

\* Where the engine puts NULLs: SQLite takes NULL as the smallest value,
\* PostgreSQL as the largest.
NullsFirst(engine, order) == (engine = "sqlite") <=> (order = "ASC")

\* Row a sorts strictly before row b under
\*   ORDER BY {order_by_column} {order}, u.name ASC
NameAscBefore(a, b) == SeqLess(Val(a.u.name), Val(b.u.name))

\* A faulty variant of TieBreakBefore: u.name in the requested direction.
NameFollowsOrderBefore(order, a, b) ==
    IF order = "ASC" THEN SeqLess(Val(a.u.name), Val(b.u.name))
    ELSE SeqLess(Val(b.u.name), Val(a.u.name))

\* The second sort key, u.name ASC (line 279).
TieBreakBefore(order, a, b) == NameAscBefore(a, b)

ColumnBefore(engine, order, v, w) ==
    IF IsNull(v) /\ IsNull(w) THEN FALSE
    ELSE IF IsNull(v) THEN NullsFirst(engine, order)
    ELSE IF IsNull(w) THEN ~NullsFirst(engine, order)
    ELSE IF order = "ASC" THEN ValueLess(v, w) ELSE ValueLess(w, v)

RowBefore(engine, col, order, a, b) ==
    LET v == OrderColumn(a, col)
        w == OrderColumn(b, col)
    IN  \/ ColumnBefore(engine, order, v, w)
        \/ /\ ~ColumnBefore(engine, order, w, v)
           /\ TieBreakBefore(order, a, b)

\* The rows in ORDER BY order.
RECURSIVE OrderBy(_, _, _, _)
OrderBy(engine, col, order, rows) ==
    IF rows = {} THEN <<>>
    ELSE LET first == CHOOSE r \in rows :
                        \A o \in rows \ {r} : ~RowBefore(engine, col, order, o, r)
         IN  <<first>> \o OrderBy(engine, col, order, rows \ {first})

-----------------------------------------------------------------------------
(* get_users_paginate_txn: the filters *)

\* One element of `filters`: the SQL text, the number of ? it holds, and the
\* clause make_in_list_sql_clause gave where the text has a %s.
Filter(sql, nparams, inner) == [sql |-> sql, nparams |-> nparams, inner |-> inner]

\* make_in_list_sql_clause(database_engine, column, iterable)
\* (synapse/storage/_base.py): column = ANY(?) with the list as one
\* parameter where the engine supports it, column IN (?,...,?) with one
\* parameter per element elsewhere.
make_in_list_sql_clause(engine, iterable) ==
    IF engine = "postgres"
    THEN [clause |-> "u.user_type = ANY(?)", nparams |-> 1,
          args |-> <<ListOf(iterable)>>]
    ELSE [clause |-> "u.user_type IN (?)", nparams |-> Len(iterable),
          args |-> [i \in 1..Len(iterable) |-> Text(iterable[i])]]

\* A faulty variant of NameFilter: the handle pattern without the % after
\* the "@", a prefix match of the local part.
PrefixNameFilter(c) ==
    IF Truthy(c.name)
    THEN [filters |-> <<Filter("(name LIKE ? OR LOWER(displayname) LIKE ?)", 2, "")>>,
          args |-> << Text(<<"@">> \o Lower(Val(c.name)) \o <<"%", ":", "%">>),
                      Text(<<"%">> \o Lower(Val(c.name)) \o <<"%">>) >>]
    ELSE IF Truthy(c.user_id)
    THEN [filters |-> <<Filter("name LIKE ?", 1, "")>>,
          args |-> << Text(<<"%">> \o Lower(Val(c.user_id)) \o <<"%">>) >>]
    ELSE [filters |-> <<>>, args |-> <<>>]

\* The name and user_id filter (lines 209-215).
NameFilter(c) ==
    IF Truthy(c.name)
    THEN [filters |-> <<Filter("(name LIKE ? OR LOWER(displayname) LIKE ?)", 2, "")>>,
          args |-> << Text(<<"@", "%">> \o Lower(Val(c.name)) \o <<"%", ":", "%">>),
                      Text(<<"%">> \o Lower(Val(c.name)) \o <<"%">>) >>]
    ELSE IF Truthy(c.user_id)
    THEN [filters |-> <<Filter("name LIKE ?", 1, "")>>,
          args |-> << Text(<<"%">> \o Lower(Val(c.user_id)) \o <<"%">>) >>]
    ELSE [filters |-> <<>>, args |-> <<>>]

\* The guests filter (lines 217-218).
GuestFilter(c) ==
    IF ~c.guests THEN <<Filter("is_guest = 0", 0, "")>> ELSE <<>>

\* A faulty variant of DeactivatedFilter: the test of the flag inverted.
InvertedDeactivatedFilter(c) ==
    IF c.deactivated THEN <<Filter("deactivated = 0", 0, "")>> ELSE <<>>

\* The deactivated filter (lines 220-221).
DeactivatedFilter(c) ==
    IF ~c.deactivated THEN <<Filter("deactivated = 0", 0, "")>> ELSE <<>>

\* A faulty variant of ApprovedFilter: the test of the flag inverted.
InvertedApprovedFilter(c) ==
    IF c.approved THEN <<Filter("approved IS FALSE", 0, "")>> ELSE <<>>

\* The approved filter (lines 223-226).
ApprovedFilter(c) ==
    IF ~c.approved THEN <<Filter("approved IS FALSE", 0, "")>> ELSE <<>>

\* The not_user_types filter (lines 228-260).
NotUserTypesFilter(engine, c) ==
    IF ~Truthy(c.not_user_types) THEN [filters |-> <<>>, args |-> <<>>]
    ELSE
    LET types == Val(c.not_user_types)
    IN  IF Len(types) = 1 /\ types[1] = <<>>
        THEN [filters |-> <<Filter("user_type IS NOT NULL", 0, "")>>, args |-> <<>>]
        ELSE
        LET not_user_types_has_empty == \E i \in 1..Len(types) : types[i] = <<>>
            not_user_types_without_empty == SelectSeq(types, LAMBDA t : t # <<>>)
            made == make_in_list_sql_clause(engine, not_user_types_without_empty)
        IN  IF not_user_types_has_empty
            THEN [filters |-> <<Filter("NOT %s", made.nparams, made.clause)>>,
                  args |-> made.args]
            ELSE [filters |-> <<Filter("(NOT %s OR %s IS NULL)", made.nparams, made.clause)>>,
                  args |-> made.args]

\* filters and args as they stand at line 262.
BuildFilters(engine, c) ==
    LET n == NameFilter(c)
        t == NotUserTypesFilter(engine, c)
    IN  [filters |-> n.filters \o GuestFilter(c) \o DeactivatedFilter(c)
                        \o ApprovedFilter(c) \o t.filters,
         args |-> n.args \o t.args]

-----------------------------------------------------------------------------
(* The engine's evaluation of the WHERE clause *)

\* column IN (...) / column = ANY(array): false on an empty list whatever
\* the column holds, unknown on NULL otherwise.
InList(inner, x, params) ==
    LET elems == IF inner = "u.user_type = ANY(?)"
                 THEN Val(params[1])
                 ELSE [i \in 1..Len(params) |-> Val(params[i])]
    IN  IF Len(elems) = 0 THEN "F"
        ELSE IF IsNull(x) THEN "U"
        ELSE Truth(\E i \in 1..Len(elems) : elems[i] = Val(x))

\* x IS FALSE
IsFalse(x) ==
    IF IsNull(x) THEN "F"
    ELSE IF Tag(x) = "bool" THEN Truth(~Val(x))
    ELSE Truth(Val(x) = 0)

\* One filter on one row of the join, with the parameters bound to its ?s.
EvalFilter(engine, f, params, j) ==
    CASE f.sql = "(name LIKE ? OR LOWER(displayname) LIKE ?)" ->
            Or3(Like3(engine, j.u.name, params[1]),
                Like3(engine, SqlLower(j.p.displayname), params[2]))
      [] f.sql = "name LIKE ?" -> Like3(engine, j.u.name, params[1])
      [] f.sql = "is_guest = 0" -> Eq3(j.u.is_guest, Integer(0))
      [] f.sql = "deactivated = 0" -> Eq3(j.u.deactivated, Integer(0))
      [] f.sql = "approved IS FALSE" -> IsFalse(j.u.approved)
      [] f.sql = "user_type IS NOT NULL" -> Truth(~IsNull(j.u.user_type))
      [] f.sql = "NOT %s" -> Not3(InList(f.inner, j.u.user_type, params))
      [] f.sql = "(NOT %s OR %s IS NULL)" ->
            Or3(Not3(InList(f.inner, j.u.user_type, params)),
                Truth(IsNull(j.u.user_type)))

\* "WHERE " + " AND ".join(filters), or nothing when there is no filter: the
\* ?s take the parameters in order.
RECURSIVE where_clause(_, _, _, _)
where_clause(engine, filters, args, j) ==
    IF filters = <<>> THEN "T"
    ELSE LET f == Head(filters)
         IN  And3(EvalFilter(engine, f, SubSeq(args, 1, f.nparams), j),
                  where_clause(engine, Tail(filters),
                               SubSeq(args, f.nparams + 1, Len(args)), j))

RECURSIVE ParamCount(_)
ParamCount(filters) ==
    IF filters = <<>> THEN 0 ELSE Head(filters).nparams + ParamCount(Tail(filters))

-----------------------------------------------------------------------------
(* get_users_paginate_txn: the two queries *)

\* A faulty variant of CountQuery: the count query without the WHERE clause.
CountWithoutWhere(engine, base, filters, args) == Cardinality(base)

\* SELECT COUNT(*) as total_users {sql_base}, executed with args (lines
\* 270-272).
CountQuery(engine, base, filters, args) ==
    Cardinality({j \in base : where_clause(engine, filters, args, j) = "T"})

\* eu.user_id is not null, as the engine returns a boolean expression.
IsNotNull(engine, x) ==
    IF engine = "sqlite" THEN Integer(IF IsNull(x) THEN 0 ELSE 1)
    ELSE Boolean(~IsNull(x))

\* creation_ts * 1000
Times1000(x) == IF IsNull(x) THEN NULL ELSE Integer(Val(x) * 1000)

\* The select list of the page query on one row of the join (lines 275-277).
SelectList(engine, j) ==
    [ name |-> j.u.name, user_type |-> j.u.user_type, is_guest |-> j.u.is_guest,
      admin |-> j.u.admin, deactivated |-> j.u.deactivated,
      shadow_banned |-> j.u.shadow_banned, displayname |-> j.p.displayname,
      avatar_url |-> j.p.avatar_url, creation_ts |-> Times1000(j.u.creation_ts),
      approved |-> j.u.approved, erased |-> IsNotNull(engine, j.eu.user_id) ]

\* LIMIT limit OFFSET offset of a sequence of rows.
LimitOffset(rows, limit, offset) ==
    IF offset >= Len(rows) THEN <<>>
    ELSE SubSeq(rows, offset + 1, Min(Len(rows), offset + limit))

\* The page query (lines 274-283), executed with args + [limit, start]: the
\* ?s of the WHERE clause take the first parameters, LIMIT ? and OFFSET ? the
\* last two.
PageQuery(engine, base, filters, args, order_by_column, order) ==
    LET n == ParamCount(filters)
        matched == {j \in base : where_clause(engine, filters, SubSeq(args, 1, n), j) = "T"}
        sorted == OrderBy(engine, order_by_column, order, matched)
        page == LimitOffset(sorted, Val(args[n + 1]), Val(args[n + 2]))
    IN  [i \in 1..Len(page) |-> SelectList(engine, page[i])]

\* A faulty variant of PageArgs: start and limit appended in the other order.
SwappedPageArgs(args, c) == args \o <<Integer(c.start), Integer(c.limit)>>

\* args += [limit, start] (line 282)
PageArgs(args, c) == args \o <<Integer(c.limit), Integer(c.start)>>

\* self.db_pool.cursor_to_dict(txn): one dict per row, keyed by column name.
cursor_to_dict(rows) ==
    [i \in 1..Len(rows) |-> [k \in DOMAIN rows[i] |-> FromDb(rows[i][k])]]

\* A faulty variant of columns_to_boolify: no column is normalised.
NoColumnsToBoolify == {}

\* Lines 286-290.
columns_to_boolify == {"erased"}

Boolify(rows) ==
    [i \in 1..Len(rows) |->
        [k \in DOMAIN rows[i] |->
            IF k \in columns_to_boolify THEN bool(rows[i][k]) ELSE rows[i][k]]]

-----------------------------------------------------------------------------
(* The calls *)

NoMessage == [fmt |-> "", args |-> <<>>]

NoCall == [op |-> "none", call |-> <<>>, outcome |-> "none", users |-> <<>>,
           count |-> 0, queries |-> <<>>, rows |-> <<>>, message |-> NoMessage,
           filters |-> <<>>]

\* The SQL texts of the filter clauses built so far.
FilterTexts(filters) == [i \in 1..Len(filters) |-> filters[i].sql]

\* A faulty variant of ExecuteCount: the sort column is looked up only after
\* the filters are built and the count query has run.
CountBeforeOrderCheck(engine, us, ps, es, c) ==
    LET built == BuildFilters(engine, c)
        count == CountQuery(engine, sql_base(us, ps, es), built.filters, built.args)
    IN  [NoCall EXCEPT !.op = "get_users_paginate", !.call = c,
                       !.outcome = IF c.order_by \notin UserSortOrder
                                   THEN "ValueError" ELSE "counted",
                       !.count = IF c.order_by \notin UserSortOrder THEN 0 ELSE count,
                       !.filters = FilterTexts(built.filters),
                       !.queries = <<"count">>]

\* The first part of get_users_paginate_txn (lines 195-272): the sort column
\* is looked up (line 202, ValueError for a value UserSortOrder does not
\* have), the filters are built and the count query is executed and fetched.
ExecuteCount(engine, us, ps, es, c) ==
    IF c.order_by \notin UserSortOrder
    THEN [NoCall EXCEPT !.op = "get_users_paginate", !.call = c,
                        !.outcome = "ValueError"]
    ELSE
    LET built == BuildFilters(engine, c)
        count == CountQuery(engine, sql_base(us, ps, es), built.filters, built.args)
    IN  [NoCall EXCEPT !.op = "get_users_paginate", !.call = c,
                       !.outcome = "counted",
                       !.count = count,
                       !.filters = FilterTexts(built.filters),
                       !.queries = <<"count">>]

\* A faulty variant of ExecutePage: the total is taken from the page that was
\* read instead of from the count query.
PageWithCountOfPage(engine, us, ps, es, r) ==
    LET c == r.call
        order == IF c.direction = "b" THEN "DESC" ELSE "ASC"
        built == BuildFilters(engine, c)
        page == PageQuery(engine, sql_base(us, ps, es), built.filters,
                          PageArgs(built.args, c), c.order_by, order)
    IN  [r EXCEPT !.outcome = "return",
                  !.users = Boolify(cursor_to_dict(page)),
                  !.count = Len(page),
                  !.queries = r.queries \o <<"page">>]

\* The second part of get_users_paginate_txn (lines 274-292), for a
\* transaction r that has fetched its count: the page query is executed with
\* the same filters, limit and start appended to args, the rows are made
\* dictionaries and boolified, and (users, count) is returned.
ExecutePage(engine, us, ps, es, r) ==
    LET c == r.call
        order_by_column == c.order_by
        order == IF c.direction = "b" THEN "DESC" ELSE "ASC"
        built == BuildFilters(engine, c)
        base == sql_base(us, ps, es)
        args == PageArgs(built.args, c)
        page == PageQuery(engine, base, built.filters, args, order_by_column, order)
    IN  [r EXCEPT !.outcome = "return",
                  !.users = Boolify(cursor_to_dict(page)),
                  !.queries = r.queries \o <<"page">>]

\* get_users_paginate_txn (lines 195-292), run by runInteraction (line 294)
\* with nothing written to the store between its two queries.
get_users_paginate_txn(engine, us, ps, es, c) ==
    LET r == ExecuteCount(engine, us, ps, es, c)
    IN  IF r.outcome = "ValueError" THEN r
        ELSE ExecutePage(engine, us, ps, es, r)

\* get_domain_from_id (synapse/types): the text after the first ":" of an
\* identifier, <<"SynapseError">> when it has none.
FirstColon(s) ==
    IF \E i \in 1..Len(s) : s[i] = ":"
    THEN CHOOSE i \in 1..Len(s) : s[i] = ":" /\ \A k \in 1..(i - 1) : s[k] # ":"
    ELSE 0

get_domain_from_id(s) ==
    IF FirstColon(s) = 0 THEN <<"SynapseError">>
    ELSE SubSeq(s, FirstColon(s) + 1, Len(s))

\* A faulty variant of check_database_before_upgrade: the domain taken after
\* the last ":" of the handle instead of the first.
LastColon(s) ==
    IF \E i \in 1..Len(s) : s[i] = ":"
    THEN CHOOSE i \in 1..Len(s) : s[i] = ":" /\ \A k \in (i + 1)..Len(s) : s[k] # ":"
    ELSE 0

CheckWithLastColonDomain(rows, server_name) ==
    LET done(outcome, message) ==
            [NoCall EXCEPT !.op = "check_database_before_upgrade",
                           !.call = [server_name |-> server_name],
                           !.outcome = outcome, !.rows = rows,
                           !.queries = <<"select name">>,
                           !.message = message]
        s == Val(rows[1])
    IN  IF rows = <<>> THEN done("return", NoMessage)
        ELSE IF SubSeq(s, LastColon(s) + 1, Len(s)) = server_name
        THEN done("return", NoMessage)
        ELSE done("Exception",
                  [fmt |-> "Found users in database not native to %s!\nYou cannot change a synapse server_name after it's been configured",
                   args |-> <<server_name>>])

\* check_database_before_upgrade (lines 317-341) once SELECT name FROM users
\* LIMIT 1 has fetched `rows`.
check_database_before_upgrade(rows, server_name) ==
    LET done(outcome, message) ==
            [NoCall EXCEPT !.op = "check_database_before_upgrade",
                           !.call = [server_name |-> server_name],
                           !.outcome = outcome, !.rows = rows,
                           !.queries = <<"select name">>,
                           !.message = message]
    IN  IF rows = <<>> THEN done("return", NoMessage)
        ELSE IF get_domain_from_id(Val(rows[1])) = <<"SynapseError">>
        THEN done("SynapseError", NoMessage)
        ELSE IF get_domain_from_id(Val(rows[1])) = server_name
        THEN done("return", NoMessage)
        ELSE done("Exception",
                  [fmt |-> "Found users in database not native to %s!\nYou cannot change a synapse server_name after it's been configured",
                   args |-> <<server_name>>])

-----------------------------------------------------------------------------
(* The inputs of the model *)

\* synapse.api.constants.Direction
FORWARDS == "f"
BACKWARDS == "b"

Bot == <<"b", "o", "t">>

NotUserTypesInputs ==
    { None, ListOf(<<>>), ListOf(<< <<>> >>), ListOf(<< <<>>, <<>> >>),
      ListOf(<<Bot>>), ListOf(<< <<>>, Bot >>), ListOf(<<Bot, Bot>>) }

\* Calls that vary the name, user_id, guests and deactivated filters.
NameCalls ==
    [ start : 0..MaxStart, limit : 0..MaxLimit,
      user_id : {None, Text(<<"L">>)},
      name : {None, Text(<<>>), Text(<<"B">>)},
      guests : BOOLEAN, deactivated : BOOLEAN,
      order_by : {"name"}, direction : {FORWARDS},
      approved : {TRUE}, not_user_types : {None} ]

\* Calls that vary the approved and not_user_types filters, with and without
\* a name filter in front of them.
TypeCalls ==
    [ start : 0..MaxStart, limit : 0..MaxLimit,
      user_id : {None}, name : {None, Text(<<"B">>)},
      guests : {TRUE}, deactivated : BOOLEAN,
      order_by : {"name"}, direction : {FORWARDS},
      approved : BOOLEAN, not_user_types : NotUserTypesInputs ]

\* Calls that vary the order, with the default filters but for deactivated.
OrderCalls ==
    [ start : 0..MaxStart, limit : 0..MaxLimit,
      user_id : {None}, name : {None},
      guests : {TRUE}, deactivated : BOOLEAN,
      order_by : {"name", "creation_ts", "displayname", "bogus"},
      direction : {FORWARDS, BACKWARDS},
      approved : {TRUE}, not_user_types : {None} ]

Calls == NameCalls \cup TypeCalls \cup OrderCalls

ServerNames == { <<"x">>, <<"b", ":", "8">>, <<"8">> }

-----------------------------------------------------------------------------
(* The state machine *)

Init ==
    \E accounts \in SUBSET Accounts, engine \in Engines :
        /\ database_engine = engine
        /\ users = {UsersRow(engine, a) : a \in accounts}
        /\ profiles = {a.p : a \in {b \in accounts : b.hasp}}
        /\ erased_users = {[user_id |-> a.u.name] : a \in {b \in accounts : b.erased}}
        /\ ret = NoCall

GetUsersPaginate ==
    \E c \in Calls :
        /\ ret = NoCall
        /\ ret' = get_users_paginate_txn(database_engine, users, profiles,
                                         erased_users, c)
        /\ UNCHANGED <<users, profiles, erased_users, database_engine>>

CheckDatabaseBeforeUpgrade ==
    \E server_name \in ServerNames :
        \E rows \in IF users = {} THEN {<<>>} ELSE {<<u.name>> : u \in users} :
            /\ ret = NoCall
            /\ ret' = check_database_before_upgrade(rows, server_name)
            /\ UNCHANGED <<users, profiles, erased_users, database_engine>>

\* The caller takes what the call returned or raised; the next call starts
\* from there.
Return ==
    /\ ret # NoCall
    /\ ret' = NoCall
    /\ UNCHANGED <<users, profiles, erased_users, database_engine>>

Next == GetUsersPaginate \/ CheckDatabaseBeforeUpgrade \/ Return

Spec == Init /\ [][Next]_vars

-----------------------------------------------------------------------------
(* What the claims speak of *)

\* The last call was get_users_paginate and it returned.
Listed == ret.op = "get_users_paginate" /\ ret.outcome = "return"

\* The page asks for rows and holds every matching row: nothing is cut by
\* LIMIT or OFFSET.
Complete ==
    Listed /\ ret.call.start = 0 /\ ret.call.limit >= 1 /\ ret.count <= ret.call.limit

\* The users row u is in the returned page.
Returned(u) == \E i \in 1..Len(ret.users) : ret.users[i].name = u.name

\* The columns the join adds to a users row.
DisplayName(u) ==
    IF \E p \in profiles : p.full_user_id = u.name
    THEN (CHOOSE p \in profiles : p.full_user_id = u.name).displayname
    ELSE NULL

\* t occurs in s.
Contains(s, t) ==
    \E i \in 0..(Len(s) - Len(t)) : SubSeq(s, i + 1, i + Len(t)) = t

\* s starts with t.
StartsWith(s, t) == Len(t) <= Len(s) /\ SubSeq(s, 1, Len(t)) = t

\* The text between "@" and the first ":" of a handle.
LocalPart(h) ==
    SubSeq(h, 2, (CHOOSE i \in 1..Len(h) : h[i] = ":" /\ \A k \in 1..(i - 1) : h[k] # ":") - 1)

\* The handle is "@", then any text, then t, then any text holding a ":".
TermBeforeColon(h, t) ==
    /\ Len(h) >= 1 /\ h[1] = "@"
    /\ \E i \in 2..(Len(h) + 1) :
          /\ i + Len(t) - 1 <= Len(h)
          /\ SubSeq(h, i, i + Len(t) - 1) = t
          /\ \E k \in (i + Len(t))..Len(h) : h[k] = ":"

DisplayNameContains(u, t) ==
    /\ ~IsNull(DisplayName(u))
    /\ Contains(Lower(Val(DisplayName(u))), t)

\* The name clause as the code builds it.
NameClause(u, term) ==
    \/ TermBeforeColon(Val(u.name), Lower(term))
    \/ DisplayNameContains(u, Lower(term))

\* The name clause as a prefix match of the local part.
PrefixNameClause(u, term) ==
    \/ StartsWith(LocalPart(Val(u.name)), Lower(term))
    \/ DisplayNameContains(u, Lower(term))

UserIdClause(u, term) == Contains(Val(u.name), Lower(term))

IsGuest(u) == Val(u.is_guest) # 0
IsDeactivated(u) == Val(u.deactivated) # 0
\* approved is set and false.
IsUnapproved(u) ==
    /\ ~IsNull(u.approved)
    /\ IF Tag(u.approved) = "bool" THEN ~Val(u.approved) ELSE Val(u.approved) = 0

\* The entries of a list of type tags, and the non-empty ones.
Entries(l) == {Val(l)[i] : i \in 1..Len(Val(l))}
Tags(l) == Entries(l) \ {<<>>}

\* What each filter asks of a users row, in two-valued terms.
NameOk(u, c) ==
    IF c.name # None /\ Val(c.name) # <<>> THEN NameClause(u, Val(c.name))
    ELSE IF c.user_id # None /\ Val(c.user_id) # <<>> THEN UserIdClause(u, Val(c.user_id))
    ELSE TRUE

GuestOk(u, c) == c.guests \/ ~IsGuest(u)
DeactivatedOk(u, c) == c.deactivated \/ ~IsDeactivated(u)
ApprovedOk(u, c) == c.approved \/ IsUnapproved(u)

TypeOk(u, c) ==
    IF c.not_user_types = None \/ Val(c.not_user_types) = <<>> THEN TRUE
    ELSE IF Val(c.not_user_types) = << <<>> >> THEN ~IsNull(u.user_type)
    ELSE IF IsNull(u.user_type)
         THEN \/ <<>> \notin Entries(c.not_user_types)
              \/ Tags(c.not_user_types) = {}  \* NOT (user_type IN ()) holds of NULL
         ELSE Val(u.user_type) \notin Tags(c.not_user_types)

Matches(u, c) ==
    NameOk(u, c) /\ GuestOk(u, c) /\ DeactivatedOk(u, c) /\ ApprovedOk(u, c)
    /\ TypeOk(u, c)

-----------------------------------------------------------------------------
(* C1 *)

\* C1: the total count a call returns is the number of users rows that
\* satisfy the filters of the call; start and limit have no part in it.
C1_CountIsNumberOfMatches ==
    Listed => ret.count = Cardinality({u \in users : Matches(u, ret.call)})

\* A call whose filters keep some rows and drop others, and whose page is
\* shorter than the count.
C1_Witness ==
    /\ Listed
    /\ ret.count >= 2
    /\ ret.count < Cardinality(users)
    /\ Len(ret.users) >= 1
    /\ Len(ret.users) < ret.count
    /\ Truthy(ret.call.name) /\ Truthy(ret.call.not_user_types)

-----------------------------------------------------------------------------
(* C2 *)

\* What the filters and the order of the last call give when nothing is cut:
\* the same call with start 0 and a limit no result exceeds.
WholeResult ==
    get_users_paginate_txn(database_engine, users, profiles, erased_users,
        [ret.call EXCEPT !.start = 0, !.limit = Cardinality(users)]).users

\* C2: the page is the entries start .. start+limit-1 (counted from 0) of
\* the filtered rows in order: it never has more than limit entries, and has
\* min(limit, max(0, count - start)) of them.
C2_PageIsWindow ==
    Listed =>
        LET start == ret.call.start
            limit == ret.call.limit
        IN  /\ Len(WholeResult) = ret.count
            /\ Len(ret.users) <= limit
            /\ Len(ret.users) = Min(limit, Max(0, ret.count - start))
            /\ \A i \in 1..Len(ret.users) : ret.users[i] = WholeResult[start + i]

\* A full page that starts after the first row and ends before the last.
C2_Witness ==
    /\ Listed
    /\ ret.call.start >= 1
    /\ ret.call.limit >= 1
    /\ Len(ret.users) = ret.call.limit
    /\ ret.count > ret.call.start + ret.call.limit

-----------------------------------------------------------------------------
(* C3 *)

NoOtherFilter(c) ==
    ~Truthy(c.name) /\ ~Truthy(c.user_id) /\ c.approved /\ ~Truthy(c.not_user_types)

\* C3: guests=False keeps every guest out of the page, deactivated=False
\* every deactivated user; both filters are conjuncts of their own, so with
\* no other filter the count is the number of users that pass both, and a
\* page that is not cut holds exactly the users that pass them and the other
\* filters; guests=True and deactivated=True put no condition on the flag.
C3_GuestAndDeactivatedFilters ==
    Listed =>
        LET c == ret.call
        IN  /\ ~c.guests =>
                  \A i \in 1..Len(ret.users) : ~Truthy(ret.users[i].is_guest)
            /\ ~c.deactivated =>
                  \A i \in 1..Len(ret.users) : ~Truthy(ret.users[i].deactivated)
            /\ NoOtherFilter(c) =>
                  ret.count = Cardinality({u \in users :
                                  /\ c.guests \/ ~IsGuest(u)
                                  /\ c.deactivated \/ ~IsDeactivated(u)})
            /\ Complete =>
                  \A u \in users :
                      Returned(u) <=>
                          /\ NameOk(u, c) /\ ApprovedOk(u, c) /\ TypeOk(u, c)
                          /\ c.guests \/ ~IsGuest(u)
                          /\ c.deactivated \/ ~IsDeactivated(u)

\* The store {al, bob (guest), cab (deactivated)} listed with guests=False and
\* deactivated=False: the page is [al] and the count 1.
C3_Witness ==
    /\ Listed
    /\ {u.name : u \in users} = {Al.u.name, Bob.u.name, Cab.u.name}
    /\ ~ret.call.guests /\ ~ret.call.deactivated /\ NoOtherFilter(ret.call)
    /\ ret.count = 1
    /\ Len(ret.users) = 1 /\ ret.users[1].name = Al.u.name

-----------------------------------------------------------------------------
(* C4 *)

RestOkButName(u, c) ==
    GuestOk(u, c) /\ DeactivatedOk(u, c) /\ ApprovedOk(u, c) /\ TypeOk(u, c)

\* C4: when both name and user_id are given (neither is None) only the name
\* clause decides: a row that passes the other filters is returned iff it
\* satisfies the name clause, whatever user_id is; the user_id clause decides
\* when no name is given.
C4_NameTakesPrecedence ==
    Complete =>
        LET c == ret.call
        IN  /\ (c.name # None /\ c.user_id # None) =>
                  \A u \in users :
                      RestOkButName(u, c) =>
                          (Returned(u) <=> NameClause(u, Val(c.name)))
            /\ (c.name = None /\ c.user_id # None) =>
                  \A u \in users :
                      RestOkButName(u, c) =>
                          (Returned(u) <=> UserIdClause(u, Val(c.user_id)))

\* The same for a name that is not empty (the case the code handles as the
\* docstring says).
C4_NonEmptyNameTakesPrecedence ==
    Complete =>
        LET c == ret.call
        IN  (Truthy(c.name) /\ c.user_id # None) =>
                \A u \in users :
                    RestOkButName(u, c) =>
                        (Returned(u) <=> NameClause(u, Val(c.name)))

-----------------------------------------------------------------------------
(* C5 *)

-----------------------------------------------------------------------------
(* C6 *)

RestOkButType(u, c) ==
    NameOk(u, c) /\ GuestOk(u, c) /\ DeactivatedOk(u, c) /\ ApprovedOk(u, c)

\* What the claim asks of a row's type tag for a list of excluded tags.
NotExcluded(u, l) ==
    IF IsNull(u.user_type) THEN <<>> \notin Entries(l)
    ELSE Val(u.user_type) \notin Tags(l)

\* C6: for every non-empty not_user_types list, repeated entries or not, a
\* row with a type tag is returned iff its tag is not one of the listed
\* non-empty tags, and a row with no type tag is returned iff the empty
\* string is not in the list.
C6_ExcludedTypes ==
    Complete /\ Truthy(ret.call.not_user_types) =>
        \A u \in users :
            RestOkButType(u, ret.call) =>
                (Returned(u) <=> NotExcluded(u, ret.call.not_user_types))

\* The same for the lists that are not two or more empty strings and nothing
\* else.
C6_ExcludedTypesButRepeatedEmpty ==
    (/\ Complete /\ Truthy(ret.call.not_user_types)
     /\ ~(Len(Val(ret.call.not_user_types)) > 1 /\ Tags(ret.call.not_user_types) = {})) =>
        \A u \in users :
            RestOkButType(u, ret.call) =>
                (Returned(u) <=> NotExcluded(u, ret.call.not_user_types))

-----------------------------------------------------------------------------
(* C7 *)

RestOkButApproved(u, c) ==
    NameOk(u, c) /\ GuestOk(u, c) /\ DeactivatedOk(u, c) /\ TypeOk(u, c)

\* C7 as the specification states it: with approved=False the rows explicitly
\* marked unapproved are the ones left out, and a row with no approval status
\* is never left out.
C7_NullApprovalNeverExcluded ==
    Complete /\ ~ret.call.approved =>
        \A u \in users :
            RestOkButApproved(u, ret.call) => (Returned(u) <=> ~IsUnapproved(u))

\* C7, amended: with approved=False only the rows explicitly marked
\* unapproved are listed and counted; rows with no approval status, like
\* approved rows, are left out.  With approved=True the approval status puts
\* no condition on a row.
C7_OnlyUnapprovedListed ==
    Listed =>
        LET c == ret.call
        IN  /\ ~c.approved =>
                  \A i \in 1..Len(ret.users) :
                      /\ ret.users[i].approved # None
                      /\ ~Truthy(ret.users[i].approved)
            /\ Complete =>
                  \A u \in users :
                      RestOkButApproved(u, c) =>
                          (Returned(u) <=> (c.approved \/ IsUnapproved(u)))

\* A call with approved=False that lists an unapproved row and leaves out a
\* row that has no approval status and passes the other filters.
C7_Witness ==
    /\ Complete /\ ~ret.call.approved
    /\ \E u \in users : Returned(u) /\ IsUnapproved(u)
    /\ \E u \in users :
          IsNull(u.approved) /\ RestOkButApproved(u, ret.call) /\ ~Returned(u)

-----------------------------------------------------------------------------
(* C8 *)

\* The page that follows the last call's page: the same call at the next
\* offset, on the same store.
NextPage ==
    get_users_paginate_txn(database_engine, users, profiles, erased_users,
        [ret.call EXCEPT !.start = ret.call.start + ret.call.limit]).users

\* Returned row a comes strictly before returned row b: by the requested
\* column in the requested direction (rows with no value at the end where the
\* engine puts them), and by ascending handle when the column does not tell
\* them apart.
ReturnedBefore(a, b) ==
    LET col == ret.call.order_by
        v == a[col]
        w == b[col]
        nullsLead == (database_engine = "sqlite") <=> (ret.call.direction = FORWARDS)
        columnBefore(x, y) ==
            IF IsNone(x) /\ IsNone(y) THEN FALSE
            ELSE IF IsNone(x) THEN nullsLead
            ELSE IF IsNone(y) THEN ~nullsLead
            ELSE IF ret.call.direction = BACKWARDS THEN ValueLess(y, x)
            ELSE ValueLess(x, y)
    IN  \/ columnBefore(v, w)
        \/ /\ ~columnBefore(w, v)
           /\ SeqLess(Val(a.name), Val(b.name))

\* C8: a page is ordered by the requested column in the requested direction
\* and, among rows equal in that column, by ascending handle; the order is
\* strict, so the page and the page at the next offset hold no row twice, and
\* together they are the rows at start .. start+2*limit-1 of the result.
C8_StableOrder ==
    Listed =>
        LET both == ret.users \o NextPage
        IN  /\ \A i, j \in 1..Len(both) : i < j => ReturnedBefore(both[i], both[j])
            /\ Len(both) = Min(2 * ret.call.limit,
                               Max(0, ret.count - ret.call.start))

\* A page in descending order that holds two rows equal in the sort column
\* (in ascending handle order) after a row with a greater value, with a next
\* page that is not empty.
C8_Witness ==
    /\ Listed /\ ret.call.direction = BACKWARDS /\ ret.call.order_by # "name"
    /\ NextPage # <<>>
    /\ \E i \in 1..Len(ret.users) : \E j \in 1..Len(ret.users) : \E k \in 1..Len(ret.users) :
          /\ i < j /\ j < k
          /\ ret.users[i][ret.call.order_by] # ret.users[j][ret.call.order_by]
          /\ ret.users[j][ret.call.order_by] = ret.users[k][ret.call.order_by]
          /\ SeqLess(Val(ret.users[j].name), Val(ret.users[k].name))

-----------------------------------------------------------------------------
(* C9 *)

IsPyBool(v) == Tag(v) = "bool"
IsZeroOrOne(v) == Tag(v) = "int" /\ Val(v) \in {0, 1}

ErasureRecorded(name) == \E e \in erased_users : e.user_id = name

\* C9 as the specification states it: with an engine that keeps booleans as
\* 0/1, erased and every other boolean field of a returned row is True or
\* False, never 0 or 1, and erased is True iff the handle has an erasure
\* record.
C9_AllBooleansNormalised ==
    Listed /\ database_engine = "sqlite" =>
        \A i \in 1..Len(ret.users) :
            LET r == ret.users[i]
            IN  /\ IsPyBool(r.erased)
                /\ Val(r.erased) <=> ErasureRecorded(r.name)
                /\ IsPyBool(r.is_guest) /\ IsPyBool(r.admin)
                /\ IsPyBool(r.deactivated)
                /\ r.shadow_banned = None \/ IsPyBool(r.shadow_banned)
                /\ r.approved = None \/ IsPyBool(r.approved)

\* C9, amended: on every engine erased is True or False, True iff the handle
\* has an erasure record; the other boolean fields are returned as the engine
\* gives them, so with an engine that keeps booleans as 0/1 is_guest, admin,
\* deactivated, and shadow_banned and approved when set, are the integers 0
\* or 1.
C9_OnlyErasedNormalised ==
    Listed =>
        \A i \in 1..Len(ret.users) :
            LET r == ret.users[i]
            IN  /\ IsPyBool(r.erased)
                /\ Val(r.erased) <=> ErasureRecorded(r.name)
                /\ database_engine = "sqlite" =>
                      /\ IsZeroOrOne(r.is_guest) /\ IsZeroOrOne(r.admin)
                      /\ IsZeroOrOne(r.deactivated)
                      /\ r.shadow_banned = None \/ IsZeroOrOne(r.shadow_banned)
                      /\ r.approved = None \/ IsZeroOrOne(r.approved)

\* A page from SQLite with an erased guest whose approval is set and a row
\* that is not erased.
C9_Witness ==
    /\ Listed /\ database_engine = "sqlite"
    /\ \E i \in 1..Len(ret.users) :
          /\ ret.users[i].erased = Boolean(TRUE)
          /\ ret.users[i].is_guest = Integer(1)
          /\ ret.users[i].approved = Integer(1)
    /\ \E i \in 1..Len(ret.users) : ret.users[i].erased = Boolean(FALSE)

-----------------------------------------------------------------------------
(* C10 *)

Checked == ret.op = "check_database_before_upgrade"

\* d is what follows the first ":" of handle h.
IsDomainOf(d, h) ==
    \E i \in 1..Len(h) :
        /\ h[i] = ":"
        /\ \A k \in 1..(i - 1) : h[k] # ":"
        /\ d = [k \in 1..(Len(h) - i) |-> h[i + k]]

\* C10: on an empty users table the check returns, whatever the server name;
\* otherwise it reads the handle of one users row and returns iff the domain
\* of that handle is the configured server name, and else raises an error
\* whose message names the configured server name.
C10_PreflightResult ==
    Checked =>
        /\ users = {} => ret.rows = <<>> /\ ret.outcome = "return"
        /\ users # {} =>
              /\ Len(ret.rows) = 1
              /\ \E u \in users : u.name = ret.rows[1]
              /\ ret.outcome = "return" <=>
                    IsDomainOf(ret.call.server_name, Val(ret.rows[1]))
              /\ ret.outcome # "return" =>
                    /\ ret.outcome = "Exception"
                    /\ ret.message.fmt # ""
                    /\ ret.message.args = <<ret.call.server_name>>

\* The check raised on a store with a user of another domain, and the message
\* names the configured server name; the handle's domain holds a ":" itself.
C10_Witness ==
    /\ Checked /\ ret.outcome = "Exception"
    /\ ret.message.args = <<ret.call.server_name>>
    /\ Len(ret.rows) = 1
    /\ IsDomainOf(<<"b", ":", "8">>, Val(ret.rows[1]))

\* C10: the check leaves the three tables as they are.
C10_StoreUntouched ==
    [][Checked' => UNCHANGED <<users, profiles, erased_users>>]_vars

C10_PreflightCheck == [](C10_PreflightResult) /\ C10_StoreUntouched

-----------------------------------------------------------------------------
(* C11 *)

\* The last call was get_users_paginate, whatever came of it.
Called == ret.op = "get_users_paginate"

\* C11: a call of get_users_paginate whose order_by is not a UserSortOrder
\* value fails with no filter clause built and no query executed, and gives
\* neither a page nor a count; every other call returns, with the count query
\* and the page query both executed: a call either returns both the page and
\* the count or fails entirely.
C11_InvalidOrderFailsFast ==
    Called =>
        /\ ret.outcome \in {"return", "ValueError"}
        /\ (ret.outcome = "ValueError") <=> (ret.call.order_by \notin UserSortOrder)
        /\ ret.outcome = "ValueError" =>
               /\ ret.filters = <<>>
               /\ ret.queries = <<>>
               /\ ret.users = <<>>
               /\ ret.count = 0
        /\ ret.outcome = "return" => ret.queries = <<"count", "page">>

\* A call with an unknown sort column that asks for rows of a store that has
\* them, and whose other arguments would have built a filter clause.
C11_Witness ==
    /\ Called
    /\ ret.outcome = "ValueError"
    /\ ret.call.order_by \notin UserSortOrder
    /\ ~ret.call.deactivated
    /\ ret.call.limit >= 1
    /\ users # {}

-----------------------------------------------------------------------------
(* C12 *)

\* The calls of the interleaved specification: the name and deactivated
\* filters vary, with every start and limit.
DriftCalls ==
    [ start : 0..MaxStart, limit : 0..MaxLimit,
      user_id : {None}, name : {None, Text(<<"B">>)},
      guests : {TRUE}, deactivated : BOOLEAN,
      order_by : {"name"}, direction : {FORWARDS},
      approved : {TRUE}, not_user_types : {None} ]

\* The transaction of a call has executed and fetched its count query
\* (line 272) and has not yet executed its page query (line 283).
InFlight == ret.op = "get_users_paginate" /\ ret.outcome = "counted"

\* get_users_paginate up to the fetch of the count.
BeginListing ==
    \E c \in DriftCalls :
        /\ ret = NoCall
        /\ ret' = ExecuteCount(database_engine, users, profiles, erased_users, c)
        /\ UNCHANGED <<users, profiles, erased_users, database_engine>>

\* Another writer of the store commits a new account between the two
\* queries; the transaction of the call holds no lock and no snapshot that
\* would hide it.
WriterAdds ==
    \E a \in Accounts :
        /\ InFlight
        /\ UsersRow(database_engine, a) \notin users
        /\ users' = users \cup {UsersRow(database_engine, a)}
        /\ profiles' = profiles \cup (IF a.hasp THEN {a.p} ELSE {})
        /\ erased_users' = erased_users \cup
                (IF a.erased THEN {[user_id |-> a.u.name]} ELSE {})
        /\ UNCHANGED <<database_engine, ret>>

\* Another writer of the store removes an account between the two queries.
WriterRemoves ==
    \E a \in Accounts :
        /\ InFlight
        /\ UsersRow(database_engine, a) \in users
        /\ users' = users \ {UsersRow(database_engine, a)}
        /\ profiles' = profiles \ {a.p}
        /\ erased_users' = erased_users \ {[user_id |-> a.u.name]}
        /\ UNCHANGED <<database_engine, ret>>

\* get_users_paginate from the page query to the return, on the store as it
\* is by then.
FinishListing ==
    /\ InFlight
    /\ ret' = ExecutePage(database_engine, users, profiles, erased_users, ret)
    /\ UNCHANGED <<users, profiles, erased_users, database_engine>>

\* The caller takes what the call returned, once it has returned.
ReturnListing == Listed /\ Return

NextConcurrent ==
    BeginListing \/ WriterAdds \/ WriterRemoves \/ FinishListing \/ ReturnListing

ConcurrentSpec == Init /\ [][NextConcurrent]_vars

\* The number of users rows that match the filters of call c in the store as
\* it is now.
NumMatching(c) == Cardinality({u \in users : Matches(u, c)})

\* The count query is the first query of a call: it is executed on the store
\* as it is when the call starts.
C12_CountFirst ==
    [][(ret = NoCall /\ ret'.op = "get_users_paginate") =>
          /\ ret'.outcome = "counted"
          /\ ret'.queries = <<"count">>
          /\ ret'.count = NumMatching(ret'.call)]_vars

\* While the call is in flight the component neither notices a write nor
\* starts again: the call stays in flight with its count, or goes on to its
\* page query and returns the count it fetched first.
C12_NoDetectionNoRetry ==
    [][InFlight =>
          /\ ret'.outcome \in {"counted", "return"}
          /\ ret'.call = ret.call
          /\ ret'.count = ret.count
          /\ ret'.outcome = "return" => ret'.queries = <<"count", "page">>]_vars

\* The page is read second, from the store as it is by then: it is the
\* window start .. start+limit-1 of the rows that match at that time.
C12_PageSecond ==
    Listed =>
        /\ Len(WholeResult) = NumMatching(ret.call)
        /\ Len(ret.users) = Min(ret.call.limit,
                                Max(0, NumMatching(ret.call) - ret.call.start))
        /\ \A i \in 1..Len(ret.users) : ret.users[i] = WholeResult[ret.call.start + i]

\* C12: within one call the count query is executed first and the page query
\* second, each on the store as it is at that moment; a write committed
\* between them is neither detected nor retried, so the call returns the
\* count of the store before the write with the page of the store after it.
C12_CountThenPage ==
    /\ C12_CountFirst
    /\ C12_NoDetectionNoRetry
    /\ [](C12_PageSecond)

\* A returned call whose count differs from the number of rows that match in
\* the store the page was read from, with more rows in the page than the
\* count says there are.
C12_Witness ==
    /\ Listed
    /\ ret.count # NumMatching(ret.call)
    /\ Len(ret.users) > ret.count
    /\ ret.call.start = 0

=============================================================================
